---- MODULE Spec2Model ----
(***************************************************************************)
(* Limit order book of src/orderbook/order_book.cpp (class OrderBook).     *)
(*                                                                         *)
(* Prices are the doubles of the source restricted to small whole numbers  *)
(* (the code only compares them with ==, != and the map comparators), and  *)
(* quantities are uint64_t values small enough that no level sum wraps.    *)
(* A std::map is a sequence of nodes kept in comparator order, a std::list *)
(* a sequence of nodes; an iterator is the identity of the node it refers  *)
(* to, so erasing a node invalidates exactly the iterators to it.          *)
(***************************************************************************)
EXTENDS Integers, Sequences, FiniteSets, TLC

\* ---------------------------------------------------------------- bounds
MaxOrderId == 2
MaxPrice == 2
MaxQty == 2
MaxNodes == 2
MaxClock == 3
MaxDepth == 2

OrderIds == 1..MaxOrderId
Prices == 0..MaxPrice
Quantities == 0..MaxQty
Nodes == 1..MaxNodes
Depths == 0..MaxDepth

VARIABLES
    bids_,          \* std::map<double, PriceLevelNode, std::greater<double>>
    asks_,          \* std::map<double, PriceLevelNode>
    order_lookup_,  \* std::unordered_map<uint64_t, LookupValue>
    iter_holders_,  \* std::unordered_map<uint64_t, unique_ptr<MapIterHolderBase>>
    ts,             \* the caller's entry sequence counter (main: uint64_t ts)
    pre,            \* the book as it was when the last call was made
    last            \* the last call: its name, arguments and results

vars == <<bids_, asks_, order_lookup_, iter_holders_, ts, pre, last>>

\* The four members of OrderBook as one value.
Book == [bids_ |-> bids_, asks_ |-> asks_,
         order_lookup_ |-> order_lookup_, iter_holders_ |-> iter_holders_]

\* OrderBook() = default: every container empty.
EmptyBook == [bids_ |-> <<>>, asks_ |-> <<>>,
              order_lookup_ |-> <<>>, iter_holders_ |-> <<>>]

\* ------------------------------------------------------- container helpers
\* unordered_map operator[] assignment and erase.
Put(f, k, v) == [x \in (DOMAIN f) \cup {k} |-> IF x = k THEN v ELSE f[x]]
Erase(f, k) == [x \in (DOMAIN f) \ {k} |-> f[x]]

InsertAt(s, i, e) == SubSeq(s, 1, i - 1) \o <<e>> \o SubSeq(s, i, Len(s))
RemoveAt(s, i) == SubSeq(s, 1, i - 1) \o SubSeq(s, i + 1, Len(s))

\* The key comparator of a ladder: std::greater for bids_, std::less for asks_.
less_for_both(is_buy, a, b) == a < b
Before(is_buy, a, b) == IF is_buy THEN a > b ELSE a < b

\* The ladder of a side, and the book with that ladder replaced.
Ladder(b, is_buy) == IF is_buy THEN b.bids_ ELSE b.asks_
WithLadder_swapped(b, is_buy, m) ==
    IF is_buy THEN [b EXCEPT !.asks_ = m] ELSE [b EXCEPT !.bids_ = m]
WithLadder(b, is_buy, m) ==
    IF is_buy THEN [b EXCEPT !.bids_ = m] ELSE [b EXCEPT !.asks_ = m]

\* map::find: the position of the node with that key, 0 for end().
MapFind(m, price) ==
    IF \E i \in 1..Len(m) : m[i].first = price
    THEN CHOOSE i \in 1..Len(m) : m[i].first = price
    ELSE 0

\* map::emplace of a key that is absent: the node goes where the comparator
\* puts it, after every node whose key orders before the new key.
MapEmplace(m, is_buy, node) ==
    InsertAt(m, 1 + Cardinality({i \in 1..Len(m) : Before(is_buy, m[i].first, node.first)}), node)

\* Dereferencing a map iterator / a list iterator: the position of the node it
\* refers to. An iterator to an erased node refers to nothing.
MapDeref(m, it) == CHOOSE i \in 1..Len(m) : m[i].it = it
ListDeref(orders, it) == CHOOSE i \in 1..Len(orders) : orders[i].it = it

\* The list nodes (orders) resting in a ladder, and the nodes in use.
Resting(m) ==
    UNION {{m[i].second.orders[j] : j \in 1..Len(m[i].second.orders)} : i \in 1..Len(m)}
RestingAll(b) == Resting(b.bids_) \cup Resting(b.asks_)
ListNodesInUse(b) == {e.it : e \in RestingAll(b)}
MapNodesInUse(b) ==
    {b.bids_[i].it : i \in 1..Len(b.bids_)} \cup {b.asks_[i].it : i \in 1..Len(b.asks_)}

\* The allocator: a node that no live container element occupies.
NewNode(used) == CHOOSE n \in Nodes : n \notin used /\ \A k \in Nodes : k < n => k \in used

\* ------------------------------------------------------------ add_order
\* list::push_back: the new node becomes the tail.
push_front(orders, elem) == <<elem>> \o orders
push_back(orders, elem) == Append(orders, elem)

\* store_lookup_map_iter<Map>: the holder keeps the map iterator under its
\* static type; the lookup entry keeps a pointer to that holder.
store_lookup_map_iter(b, order_id, is_bids, it) ==
    [b EXCEPT
        !.iter_holders_ = Put(@, order_id, [is_bids |-> is_bids, it |-> it]),
        !.order_lookup_ = Put(@, order_id,
                              [b.order_lookup_[order_id] EXCEPT !.map_iterator_ptr = order_id])]

\* One side of add_order: find the level, create it or append to it, then
\* record the order under its identifier (whatever was recorded there before).
add_to_side(b, order) ==
    LET m == Ladder(b, order.is_buy)
        i == MapFind(m, order.price)
        elem == [it |-> NewNode(ListNodesInUse(b)), order |-> order]
        node == [price |-> order.price,
                 total_quantity |-> order.quantity,
                 orders |-> <<elem>>]
        inserted == [it |-> NewNode(MapNodesInUse(b)), first |-> order.price, second |-> node]
        m2 == IF i = 0
              THEN MapEmplace(m, order.is_buy, inserted)
              ELSE [m EXCEPT ![i].second.orders = push_back(@, elem),
                             ![i].second.total_quantity = @ + order.quantity]
        level_it == IF i = 0 THEN inserted.it ELSE m[i].it
        b2 == [WithLadder(b, order.is_buy, m2) EXCEPT
                  !.order_lookup_ = Put(@, order.order_id,
                      [is_buy |-> order.is_buy, map_iterator_ptr |-> 0, order_it |-> elem.it])]
    IN  store_lookup_map_iter(b2, order.order_id, order.is_buy, level_it)

add_order_without_zero_check(b, order) == add_to_side(b, order)

add_order(b, order) ==
    IF order.quantity = 0 THEN b ELSE add_to_side(b, order)

\* --------------------------------------------------------- cancel_order
\* if (pl.total_quantity >= qty) pl.total_quantity -= qty; else pl.total_quantity = 0;
keep_total(total, qty) == total
subtract_quantity(total, qty) == IF total >= qty THEN total - qty ELSE 0

\* The removal both cancel_order and a price-changing amend_order perform on
\* the order found through lv and the holder: saturating subtraction from the
\* level's total, list erase, erase of both registry entries, and erase of the
\* level when its list became empty.
erase_order_drops_level(b, order_id) ==
    LET lv == b.order_lookup_[order_id]
        m == Ladder(b, lv.is_buy)
        mi == MapDeref(m, b.iter_holders_[order_id].it)
    IN  [WithLadder(b, lv.is_buy, RemoveAt(m, mi)) EXCEPT
            !.order_lookup_ = Erase(@, order_id),
            !.iter_holders_ = Erase(@, order_id)]

erase_order_leaks_holder(b, order_id) ==
    LET lv == b.order_lookup_[order_id]
        m == Ladder(b, lv.is_buy)
        mi == MapDeref(m, b.iter_holders_[order_id].it)
        pl == m[mi].second
        li == ListDeref(pl.orders, lv.order_it)
        total == subtract_quantity(pl.total_quantity, pl.orders[li].order.quantity)
        orders == RemoveAt(pl.orders, li)
        m2 == IF orders = <<>>
              THEN RemoveAt(m, mi)
              ELSE [m EXCEPT ![mi].second.total_quantity = total,
                             ![mi].second.orders = orders]
    IN  [WithLadder(b, lv.is_buy, m2) EXCEPT !.order_lookup_ = Erase(@, order_id)]

erase_order(b, order_id) ==
    LET lv == b.order_lookup_[order_id]
        m == Ladder(b, lv.is_buy)
        mi == MapDeref(m, b.iter_holders_[order_id].it)
        pl == m[mi].second
        li == ListDeref(pl.orders, lv.order_it)
        qty == pl.orders[li].order.quantity
        total == subtract_quantity(pl.total_quantity, qty)
        orders == RemoveAt(pl.orders, li)
        m2 == IF orders = <<>>
              THEN RemoveAt(m, mi)
              ELSE [m EXCEPT ![mi].second.total_quantity = total,
                             ![mi].second.orders = orders]
    IN  [WithLadder(b, lv.is_buy, m2) EXCEPT
            !.order_lookup_ = Erase(@, order_id),
            !.iter_holders_ = Erase(@, order_id)]

cancel_order_reports_success(b, order_id) ==
    IF order_id \notin DOMAIN b.order_lookup_ THEN [book |-> b, ret |-> TRUE]
    ELSE IF order_id \notin DOMAIN b.iter_holders_ THEN [book |-> b, ret |-> TRUE]
    ELSE [book |-> erase_order(b, order_id), ret |-> TRUE]

cancel_order(b, order_id) ==
    IF order_id \notin DOMAIN b.order_lookup_ THEN [book |-> b, ret |-> FALSE]
    ELSE IF order_id \notin DOMAIN b.iter_holders_ THEN [book |-> b, ret |-> FALSE]
    ELSE [book |-> erase_order(b, order_id), ret |-> TRUE]

\* ---------------------------------------------------------- amend_order
\* The same-price branch: the quantity is written through the list iterator
\* and the level's total moves by the difference.
amend_requeue(b, order_id, new_quantity) ==
    LET lv == b.order_lookup_[order_id]
        m == Ladder(b, lv.is_buy)
        pl == m[MapDeref(m, b.iter_holders_[order_id].it)].second
        updated == [pl.orders[ListDeref(pl.orders, lv.order_it)].order
                        EXCEPT !.quantity = new_quantity]
    IN  add_order(erase_order(b, order_id), updated)

amend_in_place_adds(b, order_id, new_quantity) ==
    LET lv == b.order_lookup_[order_id]
        m == Ladder(b, lv.is_buy)
        mi == MapDeref(m, b.iter_holders_[order_id].it)
        li == ListDeref(m[mi].second.orders, lv.order_it)
    IN  WithLadder(b, lv.is_buy,
            [m EXCEPT ![mi].second.orders[li].order.quantity = @ + new_quantity,
                      ![mi].second.total_quantity = @ + new_quantity])

amend_in_place(b, order_id, new_quantity) ==
    LET lv == b.order_lookup_[order_id]
        m == Ladder(b, lv.is_buy)
        mi == MapDeref(m, b.iter_holders_[order_id].it)
        pl == m[mi].second
        li == ListDeref(pl.orders, lv.order_it)
        old_qty == pl.orders[li].order.quantity
        total == IF new_quantity > old_qty
                 THEN pl.total_quantity + (new_quantity - old_qty)
                 ELSE pl.total_quantity - (old_qty - new_quantity)
    IN  IF new_quantity = old_qty THEN b
        ELSE WithLadder(b, lv.is_buy,
                [m EXCEPT ![mi].second.orders[li].order.quantity = new_quantity,
                          ![mi].second.total_quantity = total])

\* The price-changing branch: a copy of the order with the new price and
\* quantity (side, identifier and timestamp as they were) is added after the
\* old one is erased.
amend_move_restamped(b, order_id, new_price, new_quantity) ==
    LET lv == b.order_lookup_[order_id]
        m == Ladder(b, lv.is_buy)
        pl == m[MapDeref(m, b.iter_holders_[order_id].it)].second
        updated == [pl.orders[ListDeref(pl.orders, lv.order_it)].order
                        EXCEPT !.price = new_price, !.quantity = new_quantity,
                               !.timestamp_ns = ts]
    IN  add_order(erase_order(b, order_id), updated)

amend_move_in_place(b, order_id, new_price, new_quantity) ==
    LET lv == b.order_lookup_[order_id]
        m == Ladder(b, lv.is_buy)
        mi == MapDeref(m, b.iter_holders_[order_id].it)
        pl == m[mi].second
        li == ListDeref(pl.orders, lv.order_it)
        old_qty == pl.orders[li].order.quantity
    IN  WithLadder(b, lv.is_buy,
            [m EXCEPT ![mi].second.orders[li].order.price = new_price,
                      ![mi].second.orders[li].order.quantity = new_quantity,
                      ![mi].second.total_quantity = (@ - old_qty) + new_quantity])

amend_move(b, order_id, new_price, new_quantity) ==
    LET lv == b.order_lookup_[order_id]
        m == Ladder(b, lv.is_buy)
        mi == MapDeref(m, b.iter_holders_[order_id].it)
        pl == m[mi].second
        li == ListDeref(pl.orders, lv.order_it)
        updated == [pl.orders[li].order EXCEPT !.price = new_price,
                                               !.quantity = new_quantity]
    IN  add_order(erase_order(b, order_id), updated)

\* The price of the level the order's holder refers to (pl.price).
LevelPrice(b, order_id) ==
    LET m == Ladder(b, b.order_lookup_[order_id].is_buy)
    IN  m[MapDeref(m, b.iter_holders_[order_id].it)].second.price

amend_order(b, order_id, new_price, new_quantity) ==
    IF order_id \notin DOMAIN b.order_lookup_ THEN [book |-> b, ret |-> FALSE]
    ELSE IF order_id \notin DOMAIN b.iter_holders_ THEN [book |-> b, ret |-> FALSE]
    ELSE IF new_price # LevelPrice(b, order_id)
         THEN [book |-> amend_move(b, order_id, new_price, new_quantity), ret |-> TRUE]
         ELSE [book |-> amend_in_place(b, order_id, new_quantity), ret |-> TRUE]

\* --------------------------------------------------------- get_snapshot
\* One loop of get_snapshot: from begin(), while not at end() and count < depth.
RECURSIVE SnapshotLoop(_, _, _, _)
SnapshotLoop(m, depth, count, out) ==
    IF count + 1 <= Len(m) /\ count < depth
    THEN SnapshotLoop(m, depth, count + 1,
             Append(out, [price |-> m[count + 1].first,
                          total_quantity |-> m[count + 1].second.total_quantity]))
    ELSE out

get_snapshot_ignores_depth(b, depth) ==
    [bids |-> SnapshotLoop(b.bids_, Len(b.bids_), 0, <<>>),
     asks |-> SnapshotLoop(b.asks_, Len(b.asks_), 0, <<>>)]

get_snapshot(b, depth) ==
    [bids |-> SnapshotLoop(b.bids_, depth, 0, <<>>),
     asks |-> SnapshotLoop(b.asks_, depth, 0, <<>>)]

\* ------------------------------------------------------------ the calls
NoCall == [op |-> "none", order_id |-> 0, is_buy |-> FALSE, price |-> 0,
           quantity |-> 0, depth |-> 0, ret |-> FALSE, bids |-> <<>>, asks |-> <<>>]

\* No call is in progress: the caller is between two statements.
Idle == last.op = "none"

\* The members take the value b; the call is recorded with the book it met.
Becomes(b, call) ==
    /\ bids_' = b.bids_
    /\ asks_' = b.asks_
    /\ order_lookup_' = b.order_lookup_
    /\ iter_holders_' = b.iter_holders_
    /\ pre' = Book
    /\ last' = call

Init ==
    /\ bids_ = <<>>
    /\ asks_ = <<>>
    /\ order_lookup_ = <<>>
    /\ iter_holders_ = <<>>
    /\ ts = 0
    /\ pre = EmptyBook
    /\ last = NoCall

\* ob.add_order(mk(id, buy, p, q)): mk stamps the order with ts++. The prices
\* of Prices are tried from MaxPrice down to 0.
AddOrder ==
    /\ Idle
    /\ ts < MaxClock
    /\ Cardinality(RestingAll(Book)) < MaxNodes
    /\ \E order_id \in OrderIds, is_buy \in BOOLEAN, k \in Prices, quantity \in Quantities :
        LET price == MaxPrice - k
        IN  Becomes(add_order(Book, [order_id |-> order_id, is_buy |-> is_buy, price |-> price,
                                     quantity |-> quantity, timestamp_ns |-> ts]),
                    [NoCall EXCEPT !.op = "add_order", !.order_id = order_id, !.is_buy = is_buy,
                                   !.price = price, !.quantity = quantity])
    /\ ts' = ts + 1

CancelOrder ==
    /\ Idle
    /\ \E order_id \in OrderIds :
        LET r == cancel_order(Book, order_id)
        IN  Becomes(r.book, [NoCall EXCEPT !.op = "cancel_order", !.order_id = order_id,
                                           !.ret = r.ret])
    /\ UNCHANGED ts

AmendOrder ==
    /\ Idle
    /\ \E order_id \in OrderIds, k \in Prices, new_quantity \in Quantities :
        LET new_price == MaxPrice - k
            r == amend_order(Book, order_id, new_price, new_quantity)
        IN  Becomes(r.book, [NoCall EXCEPT !.op = "amend_order", !.order_id = order_id,
                                           !.price = new_price, !.quantity = new_quantity,
                                           !.ret = r.ret])
    /\ UNCHANGED ts

GetSnapshot ==
    /\ Idle
    /\ \E depth \in Depths :
        LET r == get_snapshot(Book, depth)
        IN  Becomes(Book, [NoCall EXCEPT !.op = "get_snapshot", !.depth = depth,
                                         !.bids = r.bids, !.asks = r.asks])
    /\ UNCHANGED ts

\* The call has returned and the caller goes on to its next statement: the
\* record of the call is dropped, the book stays as the call left it.
Return ==
    /\ ~Idle
    /\ pre' = EmptyBook
    /\ last' = NoCall
    /\ UNCHANGED <<bids_, asks_, order_lookup_, iter_holders_, ts>>

Next == AddOrder \/ CancelOrder \/ AmendOrder \/ GetSnapshot \/ Return

Spec == Init /\ [][Next]_vars
\* ------------------------------------------------------------ properties
\* The levels of both ladders, and the calls the properties speak of.
Levels(b) == {b.bids_[i].second : i \in 1..Len(b.bids_)}
                \cup {b.asks_[i].second : i \in 1..Len(b.asks_)}

RECURSIVE SumQuantity(_)
SumQuantity(orders) ==
    IF orders = <<>> THEN 0
    ELSE orders[1].order.quantity + SumQuantity(Tail(orders))

Live(b, order_id) == order_id \in DOMAIN b.order_lookup_
Called(op) == last.op = op

\* The list element a live identifier's registry entry refers to.
Located(b, order_id) ==
    LET m == Ladder(b, b.order_lookup_[order_id].is_buy)
        pl == m[MapDeref(m, b.iter_holders_[order_id].it)].second
    IN  pl.orders[ListDeref(pl.orders, b.order_lookup_[order_id].order_it)]

\* The orders of the level at a price on one side, <<>> when there is none.
OrdersAt(b, is_buy, price) ==
    LET m == Ladder(b, is_buy)
    IN  IF MapFind(m, price) = 0 THEN <<>> ELSE m[MapFind(m, price)].second.orders

\* C1: in every state (so after any sequence of add_order, cancel_order and
\* amend_order calls) each level's total_quantity is the sum of the quantities
\* of the orders in its list.
C1_AggregateIsSum ==
    \A pl \in Levels(Book) : pl.total_quantity = SumQuantity(pl.orders)

\* C1 witness: a cancel or an amend has just changed a book in which a level
\* of two orders with different quantities remains.
C1_Witness ==
    /\ Called("amend_order") \/ Called("cancel_order")
    /\ last.ret
    /\ Book # pre
    /\ \E pl \in Levels(Book) :
          /\ Len(pl.orders) = 2
          /\ pl.orders[1].order.quantity # pl.orders[2].order.quantity
          /\ pl.total_quantity > MaxQty

\* C2: every level present in a ladder has total_quantity > 0 and every order
\* resting in it has quantity > 0 (no zero-quantity level, no zero-quantity
\* order is left resting).
C2_NoZeroLevelNoZeroOrder ==
    \A pl \in Levels(Book) :
        /\ pl.total_quantity > 0
        /\ pl.orders # <<>>
        /\ \A j \in 1..Len(pl.orders) : pl.orders[j].order.quantity > 0

\* C3: add_order with an identifier that is live when the call is made leaves
\* both ladders and the registry exactly as they were.
C3_DuplicateAddRejected ==
    (Called("add_order") /\ Live(pre, last.order_id)) => Book = pre

\* C4: after cancel_order(id) returns true no order with that identifier
\* rests in a ladder and the registry has no entry for it; while the registry
\* has no entry for it cancel_order and amend_order return false, and only
\* add_order with that identifier brings an entry back.
C4_CancelledIsGone ==
    /\ (Called("cancel_order") /\ last.ret) =>
          /\ ~Live(Book, last.order_id)
          /\ \A e \in RestingAll(Book) : e.order.order_id # last.order_id
    /\ ((Called("cancel_order") \/ Called("amend_order")) /\ ~Live(pre, last.order_id)) =>
          ~last.ret
    /\ \A id \in OrderIds :
          (~Idle /\ ~Live(pre, id) /\ Live(Book, id)) =>
              (Called("add_order") /\ last.order_id = id)

\* C5: cancel_order and amend_order with an identifier the registry does not
\* hold return false and leave both ladders and the registry unchanged.
C5_UnknownIdIsNoOp ==
    ((Called("cancel_order") \/ Called("amend_order")) /\ ~Live(pre, last.order_id)) =>
        (~last.ret /\ Book = pre)

\* C5 witness: a cancel or an amend of an identifier the registry does not
\* hold, made after two add_order calls while some order rests in the book.
C5_Witness ==
    /\ Called("cancel_order") \/ Called("amend_order")
    /\ ~Live(pre, last.order_id)
    /\ RestingAll(pre) # {}
    /\ ts >= 2

\* C6: amend_order(id, p, 0) on a live order returns what cancel_order(id)
\* returns and leaves the book as cancel_order(id) would, for every p.
C6_AmendToZeroIsCancel ==
    (Called("amend_order") /\ Live(pre, last.order_id) /\ last.quantity = 0) =>
        /\ last.ret = cancel_order(pre, last.order_id).ret
        /\ Book = cancel_order(pre, last.order_id).book

\* C7: amend_order on a live order with its current price and a quantity > 0
\* returns true and changes that order's quantity and nothing else: every
\* level holds the same list nodes with the same identifiers in the same
\* sequence, every other order is as it was, and the registry is unchanged.
C7_SamePriceAmendKeepsQueue ==
    (/\ Called("amend_order")
     /\ Live(pre, last.order_id)
     /\ last.price = LevelPrice(pre, last.order_id)
     /\ last.quantity > 0) =>
        LET it == pre.order_lookup_[last.order_id].order_it
            Blank(m) == [i \in 1..Len(m) |->
                           [it |-> m[i].it, first |-> m[i].first, price |-> m[i].second.price,
                            orders |-> [j \in 1..Len(m[i].second.orders) |->
                                IF m[i].second.orders[j].it = it
                                THEN [m[i].second.orders[j] EXCEPT !.order.quantity = 0]
                                ELSE m[i].second.orders[j]]]]
        IN  /\ last.ret
            /\ Blank(bids_) = Blank(pre.bids_)
            /\ Blank(asks_) = Blank(pre.asks_)
            /\ order_lookup_ = pre.order_lookup_
            /\ iter_holders_ = pre.iter_holders_
            /\ Located(Book, last.order_id).order.quantity = last.quantity

\* C7 witness: the head of a two-order level was amended at its own price to
\* a different non-zero quantity and is still the head.
C7_Witness ==
    /\ Called("amend_order")
    /\ Live(pre, last.order_id)
    /\ last.price = LevelPrice(pre, last.order_id)
    /\ last.quantity > 0
    /\ Located(pre, last.order_id).order.quantity # last.quantity
    /\ LET orders == OrdersAt(pre, pre.order_lookup_[last.order_id].is_buy, last.price)
       IN  /\ Len(orders) = 2
           /\ orders[1].it = pre.order_lookup_[last.order_id].order_it
           /\ orders[2].order.order_id # last.order_id

\* C8: amend_order on a live order with a price other than its current one and
\* a quantity > 0 returns true and leaves the order, with the new price and
\* quantity, as the last element of the level at the new price on its side,
\* behind every order that rested there before, in their old sequence.
C8_PriceChangeGoesLast ==
    (/\ Called("amend_order")
     /\ Live(pre, last.order_id)
     /\ last.price # LevelPrice(pre, last.order_id)
     /\ last.quantity > 0) =>
        LET is_buy == pre.order_lookup_[last.order_id].is_buy
            before == OrdersAt(pre, is_buy, last.price)
            after == OrdersAt(Book, is_buy, last.price)
        IN  /\ last.ret
            /\ Len(after) = Len(before) + 1
            /\ SubSeq(after, 1, Len(before)) = before
            /\ after[Len(after)].order.order_id = last.order_id
            /\ after[Len(after)].order.price = last.price
            /\ after[Len(after)].order.quantity = last.quantity
            /\ Live(Book, last.order_id)
            /\ Located(Book, last.order_id) = after[Len(after)]

\* C8 witness: an order that was the head of its level was moved to a price
\* where another order already rested.
C8_Witness ==
    /\ Called("amend_order")
    /\ Live(pre, last.order_id)
    /\ last.price # LevelPrice(pre, last.order_id)
    /\ last.quantity > 0
    /\ LET is_buy == pre.order_lookup_[last.order_id].is_buy
           old == OrdersAt(pre, is_buy, LevelPrice(pre, last.order_id))
       IN  /\ old[1].it = pre.order_lookup_[last.order_id].order_it
           /\ OrdersAt(pre, is_buy, last.price) # <<>>
           /\ Len(OrdersAt(Book, is_buy, last.price)) = 2

\* C9 (Scenario D): amending a resting bid, the only order with its
\* identifier, to a new price with its quantity unchanged removes it from the
\* bid ladder, its old level going with it when it was alone there, and makes
\* it the last order of the ask level at the new price.
C9_ScenarioD_BidMovesToAsks ==
    (/\ Called("amend_order")
     /\ Live(pre, last.order_id)
     /\ pre.order_lookup_[last.order_id].is_buy
     /\ Cardinality({e \in RestingAll(pre) : e.order.order_id = last.order_id}) = 1
     /\ last.price # LevelPrice(pre, last.order_id)
     /\ last.quantity > 0
     /\ last.quantity = Located(pre, last.order_id).order.quantity) =>
        LET old_price == LevelPrice(pre, last.order_id)
            asks == OrdersAt(Book, FALSE, last.price)
        IN  /\ last.ret
            /\ \A e \in Resting(bids_) : e.order.order_id # last.order_id
            /\ (Len(OrdersAt(pre, TRUE, old_price)) = 1) => (MapFind(bids_, old_price) = 0)
            /\ asks # <<>>
            /\ asks[Len(asks)].order.order_id = last.order_id

\* C10: add_order with a price <= 0 leaves both ladders and the registry
\* unchanged.
C10_NonPositivePriceRejected ==
    (Called("add_order") /\ last.price <= 0) => Book = pre

\* C11: add_order with quantity zero leaves both ladders and the registry
\* exactly as they were, for any identifier, side and price.
C11_ZeroQuantityAddRejected ==
    (Called("add_order") /\ last.quantity = 0) => Book = pre

\* C11 witness: a zero-quantity add was made at a price with no level on its
\* side, under an identifier that is not live, while another order rested.
C11_Witness ==
    /\ Called("add_order")
    /\ last.quantity = 0
    /\ last.price > 0
    /\ ~Live(pre, last.order_id)
    /\ OrdersAt(pre, last.is_buy, last.price) = <<>>
    /\ RestingAll(pre) # {}

\* The prices of a snapshot side, in the sequence returned.
SnapshotPrices(levels) == [i \in 1..Len(levels) |-> levels[i].price]
StrictlyDecreasing(s) == \A i \in 1..Len(s) : \A j \in 1..Len(s) : i < j => s[i] > s[j]
StrictlyIncreasing(s) == \A i \in 1..Len(s) : \A j \in 1..Len(s) : i < j => s[i] < s[j]

\* C12: in every reachable state get_snapshot, at every depth, returns the bid
\* levels in strictly decreasing price order and the ask levels in strictly
\* increasing price order (so no price twice on a side).
C12_SnapshotStrictlyOrdered ==
    \A depth \in Depths :
        /\ StrictlyDecreasing(SnapshotPrices(get_snapshot(Book, depth).bids))
        /\ StrictlyIncreasing(SnapshotPrices(get_snapshot(Book, depth).asks))

\* C12 witness: get_snapshot returned two bid levels, after the lower-priced
\* level was created first.
C12_Witness ==
    /\ Called("get_snapshot")
    /\ Len(last.bids) = 2
    /\ bids_[1].second.orders[1].order.timestamp_ns
          > bids_[2].second.orders[1].order.timestamp_ns

Min(a, b) == IF a < b THEN a ELSE b

\* What get_snapshot must return for one side: n entries, each the price and
\* total of a level of the ladder, no price twice, and every level left out
\* priced worse than every level returned.
BestLevels(levels, m, is_buy, n) ==
    /\ Len(levels) = n
    /\ \A i \in 1..Len(levels) :
          \E k \in 1..Len(m) : /\ m[k].first = levels[i].price
                               /\ m[k].second.total_quantity = levels[i].total_quantity
    /\ \A i \in 1..Len(levels) : \A j \in 1..Len(levels) :
          i # j => levels[i].price # levels[j].price
    /\ \A k \in 1..Len(m) :
          (\A i \in 1..Len(levels) : levels[i].price # m[k].first) =>
              \A i \in 1..Len(levels) :
                  IF is_buy THEN levels[i].price > m[k].first
                            ELSE levels[i].price < m[k].first

\* C13: get_snapshot(depth) returns for each side exactly min(depth, number of
\* levels) entries, the best-priced levels of the side with their totals, and
\* leaves the book unchanged; with depth 0 both sequences are empty.
C13_SnapshotBestLevels ==
    Called("get_snapshot") =>
        /\ Book = pre
        /\ BestLevels(last.bids, pre.bids_, TRUE, Min(last.depth, Len(pre.bids_)))
        /\ BestLevels(last.asks, pre.asks_, FALSE, Min(last.depth, Len(pre.asks_)))
        /\ (last.depth = 0) => (last.bids = <<>> /\ last.asks = <<>>)

\* C13 witness: a snapshot of depth 1 of a book with two bid levels, the best
\* of them holding the later order, and no ask level.
C13_Witness ==
    /\ Called("get_snapshot")
    /\ last.depth = 1
    /\ Len(pre.bids_) = 2
    /\ pre.asks_ = <<>>
    /\ Len(last.bids) = 1
    /\ last.bids[1].total_quantity = MaxQty
    /\ pre.bids_[2].second.total_quantity < MaxQty

\* The orders of a level are in ascending timestamp_ns order from head to tail.
Ascending(orders) ==
    \A i \in 1..Len(orders) : \A j \in 1..Len(orders) :
        i < j => orders[i].order.timestamp_ns < orders[j].order.timestamp_ns
AllAscending(b) == \A pl \in Levels(b) : Ascending(pl.orders)

\* The last call was an amend_order of a live order to another price with a
\* quantity > 0.
MovedByAmend ==
    /\ Called("amend_order")
    /\ Live(pre, last.order_id)
    /\ last.price # LevelPrice(pre, last.order_id)
    /\ last.quantity > 0

\* C14 as stated: with add_order calls stamped by a strictly increasing
\* counter, every level is in ascending timestamp_ns order in every state, and
\* a price-changing amend gives the moved order a new timestamp_ns, larger
\* than that of every order already at the destination level.
C14_LevelsAscendingAndMoveRestamped ==
    /\ AllAscending(Book)
    /\ MovedByAmend =>
          LET moved == Located(Book, last.order_id)
              dest == OrdersAt(Book, moved.order.is_buy, last.price)
          IN  /\ moved.order.timestamp_ns # Located(pre, last.order_id).order.timestamp_ns
              /\ \A j \in 1..Len(dest) :
                    dest[j].it # moved.it =>
                        dest[j].order.timestamp_ns < moved.order.timestamp_ns

\* C14 amended: with add_order calls stamped by a strictly increasing counter,
\* every call other than a price-changing amend keeps every level in
\* ascending timestamp_ns order; a price-changing amend keeps the moved
\* order's timestamp_ns and keeps the orders ahead of it in ascending order.
C14_AscendingUnlessMovedTimestampKept ==
    /\ (~Idle /\ ~MovedByAmend /\ AllAscending(pre)) => AllAscending(Book)
    /\ MovedByAmend =>
          LET moved == Located(Book, last.order_id)
          IN  /\ moved.order.timestamp_ns = Located(pre, last.order_id).order.timestamp_ns
              /\ AllAscending(pre) =>
                    \A pl \in Levels(Book) :
                        Ascending(SelectSeq(pl.orders, LAMBDA e : e.it # moved.it))

\* C14 witness: an order was moved behind an order that entered after it, so
\* the destination level is no longer in ascending timestamp_ns order.
C14_Witness ==
    /\ MovedByAmend
    /\ AllAscending(pre)
    /\ ~AllAscending(Book)

C16_RetryLeavesBookUnchanged ==
    /\ Called("cancel_order") => cancel_order(Book, last.order_id).book = Book
    /\ Called("amend_order") =>
          amend_order(Book, last.order_id, last.price, last.quantity).book = Book

\* C16 witness: an amend to another price with quantity 0 removed a live order
\* from a book holding another order, so the retry meets an unknown identifier.
C16_Witness ==
    /\ Called("amend_order")
    /\ Live(pre, last.order_id)
    /\ last.price # LevelPrice(pre, last.order_id)
    /\ last.quantity = 0
    /\ ~Live(Book, last.order_id)
    /\ RestingAll(Book) # {}
    /\ ~amend_order(Book, last.order_id, last.price, last.quantity).ret

\* C17: add_order of a buy order leaves the ask ladder as it was and add_order
\* of a sell order leaves the bid ladder as it was, also when the new order's
\* price crosses the best price of the opposite side.
C17_AddLeavesOppositeSide ==
    Called("add_order") =>
        /\ last.is_buy => asks_ = pre.asks_
        /\ ~last.is_buy => bids_ = pre.bids_

\* C17 witness: a buy order was added and now rests at a price at or above
\* the best ask, which is positive.
C17_Witness ==
    /\ Called("add_order")
    /\ last.is_buy
    /\ last.quantity > 0
    /\ pre.asks_ # <<>>
    /\ pre.asks_[1].first > 0
    /\ last.price >= pre.asks_[1].first
    /\ OrdersAt(Book, TRUE, last.price) # <<>>
    /\ Live(Book, last.order_id)

\* The queue at a price on one side without the list node `it`.
OthersAt(b, is_buy, price, it) ==
    SelectSeq(OrdersAt(b, is_buy, price), LAMBDA e : e.it # it)

\* The list node a live identifier's registry entry refers to, 0 for none.
NodeOf(b, order_id) ==
    IF Live(b, order_id) THEN b.order_lookup_[order_id].order_it ELSE 0

RefersTo(b, order_id, e) ==
    /\ order_id \in DOMAIN b.order_lookup_
    /\ order_id \in DOMAIN b.iter_holders_
    /\ b.order_lookup_[order_id].is_buy = e.order.is_buy
    /\ b.iter_holders_[order_id].is_bids = e.order.is_buy
    /\ b.order_lookup_[order_id].order_it = e.it
    /\ \E i \in 1..Len(Ladder(b, e.order.is_buy)) :
          LET node == Ladder(b, e.order.is_buy)[i]
          IN  /\ node.it = b.iter_holders_[order_id].it
              /\ node.first = e.order.price
              /\ \E j \in 1..Len(node.second.orders) : node.second.orders[j] = e

\* C19: in every state every order resting in a ladder has a registry entry
\* under its identifier that refers to that very order, and every registry
\* entry refers to an order resting in a ladder under that identifier.
C19_RegistryMatchesLadders ==
    /\ \A e \in RestingAll(Book) : RefersTo(Book, e.order.order_id, e)
    /\ \A id \in DOMAIN order_lookup_ :
          \E e \in RestingAll(Book) : e.order.order_id = id /\ RefersTo(Book, id, e)

\* C20: in every state order_lookup_ and iter_holders_ have the same keys, and
\* no cancel_order or amend_order of an identifier found in order_lookup_
\* returned false.
C20_LookupAndHoldersSameKeys ==
    /\ DOMAIN order_lookup_ = DOMAIN iter_holders_
    /\ ((Called("cancel_order") \/ Called("amend_order")) /\ Live(pre, last.order_id)) =>
          (last.order_id \in DOMAIN pre.iter_holders_ /\ last.ret)

\* C20 witness: a cancel removed one of two registered identifiers after the
\* other had been moved to another price.
C20_Witness ==
    /\ Called("cancel_order")
    /\ last.ret
    /\ Cardinality(DOMAIN pre.order_lookup_) = 2
    /\ Cardinality(DOMAIN order_lookup_) = 1
    /\ \E id \in DOMAIN order_lookup_ :
          Located(Book, id).order.timestamp_ns = 0 /\ ts = MaxClock
====
